---- MODULE Spec2Model ----
(***************************************************************************)
(* Silver-view layout reconciliation of consolidated_central_project_data. *)
(*                                                                         *)
(* One logical table is followed through                                   *)
(*   - the tenants' catalogs (INFORMATION_SCHEMA of each company project), *)
(*   - analysis_silver_views.py: analyze_all_tables, which analyses the    *)
(*     tenants' columns, builds the layout and saves it in                 *)
(*     metadata_consolidated_tables,                                       *)
(*   - generate_silver_views.py: generate_all_silver_views, which reads    *)
(*     the saved layout and creates one view per tenant.                   *)
(* Strings are the program's strings; Python's str ordering is the rank    *)
(* of a name in PyStrOrder.                                                *)
(***************************************************************************)
EXTENDS Integers, Sequences, FiniteSets, TLC

VARIABLES
    catalog,            \* tenant -> [exists, columns: column_name -> data_type] of the source table
    metadata,           \* the table's row of metadata_consolidated_tables (or None)
    \* locals of the run that produced this state (None after any other operation):
    table_analysis,     \* analyze_all_tables: what analyze_table_fields_across_companies returned
    layout_array,       \* analyze_all_tables: what build_layout_definition_array returned
    results_summary,    \* analyze_all_tables: results_summary
    layout_definition,  \* generate_all_silver_views: the layout read from the metadata
    sql,                \* generate_all_silver_views: tenant -> generated select list
    views,              \* tenant -> select list of the tenant's silver view (or None)
    tracking,           \* tenant -> consolidated_status of companies_consolidated (or None)
    last_op,            \* the operation that produced this state
    runs,               \* the number of analysis and generation runs so far
    \* a call of determine_consensus_type on its own:
    type_list,          \* its argument, the declared types observed for one field
    consensus_type,     \* what it returned (or None before the call)
    \* a call of generate_cast_for_field on its own:
    cast_call,          \* None, or its type arguments and the expression it returned
    \* analysis passes that run side by side, each in its own process:
    passes,             \* pass -> where the pass is and what it has built
    \* calls of generate_silver_view_sql_from_metadata on their own:
    clock,              \* datetime.now(), in seconds
    sql_call,           \* None, or the tenant of the calls and the statements they returned
    \* the tracking of one (company, table) pair on its own:
    companies_consolidated, \* the rows of the tracking table for the pair
    status_calls,       \* the calls of update_status so far: arguments, time and return value
    retry,              \* the loop that creates the pair's view: attempt, outcome, errors
    callers,            \* jobs that call update_status for the pair at the same time
    \* a call of the analyze_data_types_for_table of src/generate_silver_views.py on its own:
    legacy_analysis     \* None, or what the call returned

vars == <<catalog, metadata, table_analysis, layout_array, results_summary,
          layout_definition, sql, views, tracking, last_op, runs, type_list, consensus_type,
          cast_call, passes, clock, sql_call, companies_consolidated, status_calls, retry,
          callers, legacy_analysis>>

----------------------------------------------------------------------------
(* Bounds *)

NumTenants == 2          \* tenants (companies)
NumPasses == 2           \* analysis passes running side by side
NumCallers == 2          \* jobs calling update_status side by side
MaxColumns == 2          \* columns of the table, summed over the tenants
MaxRuns == 3             \* runs of analyze_all_tables and generate_all_silver_views
MaxObservations == 3     \* declared types handed to determine_consensus_type
MaxClock == 2            \* seconds the clock advances
MaxCalls == 2            \* calls of generate_silver_view_sql_from_metadata with the same arguments
MaxStatusCalls == 3      \* calls of update_status for one pair

Tenants == 1..NumTenants

\* the variables of the calls and passes that the runs below leave alone
\* the variables of the calls of single functions further below
trackingVars == <<companies_consolidated, status_calls, retry, callers>>

callVars == <<clock, sql_call, trackingVars, legacy_analysis>>

otherVars == <<type_list, consensus_type, cast_call, passes, callVars>>

\* Python's None / a value: a sequence of at most one element
None == << >>
Some(x) == << x >>
Get(o) == o[1]

Passes == 1..NumPasses
IdlePass == [pc |-> "idle"]

NoTable == [exists |-> FALSE, columns |-> << >>]
Table(columns) == [exists |-> TRUE, columns |-> columns]

----------------------------------------------------------------------------
(* The catalog vocabulary: the columns a tenant's table may have and the   *)
(* data_type INFORMATION_SCHEMA.COLUMNS reports for each.                  *)

ColumnTypes ==
    [ addr      |-> {"STRUCT<city STRING>"},
      addr_city |-> {"STRING"},
      id        |-> {"INT64", "FLOAT64"},
      tags      |-> {"ARRAY<STRING>"} ]

ColumnNames == DOMAIN ColumnTypes

\* Every Fivetran table carries the ETL control column.
ControlColumns == [ _fivetran_synced |-> "TIMESTAMP" ]

\* Python's ordering of the strings that occur as field names.
PyStrOrder ==
    << "_fivetran_synced", "addr", "addr.city", "addr_city", "id", "name", "note", "tags" >>

PyRank(s) == CHOOSE i \in 1..Len(PyStrOrder) : PyStrOrder[i] = s

\* sorted(S) for a set of names
RECURSIVE sorted(_)
sorted(S) ==
    IF S = {} THEN << >>
    ELSE LET m == CHOOSE x \in S : \A y \in S : PyRank(x) <= PyRank(y)
         IN  << m >> \o sorted(S \ {m})

Range(s) == { s[i] : i \in 1..Len(s) }

\* list(S): some enumeration of a set
RECURSIVE list(_)
list(S) ==
    IF S = {} THEN << >>
    ELSE LET m == CHOOSE x \in S : TRUE IN << m >> \o list(S \ {m})

\* data_type LIKE 'ARRAY%'
IsArrayType(data_type) == data_type \in {"ARRAY<STRING>"}

\* data_type.startswith('STRUCT<')
IsStructType(data_type) == data_type \in {"STRUCT<city STRING>"}

\* data_type.replace('STRUCT<', '').replace('>', '').split(', '), each split(' ')
StructFields(data_type) ==
    IF data_type = "STRUCT<city STRING>"
    THEN { [name |-> "city", type_info |-> "STRING"] }
    ELSE {}

\* column_name.str.startswith('_')
StartsWithUnderscore(name) == name \in DOMAIN ControlColumns

----------------------------------------------------------------------------
(* get_table_fields_with_types: the tenant's columns, STRUCTs flattened.   *)
(* The DataFrame is the set of its rows (column names are unique in it).   *)

FlattenRow(column_name, data_type) ==
    IF IsArrayType(data_type)
    THEN { [column_name |-> column_name, alias_name |-> column_name,
            data_type |-> data_type, is_repeated_record |-> TRUE] }
    ELSE IF IsStructType(data_type)
    THEN { [column_name |-> column_name \o "." \o sf.name,
            alias_name |-> column_name \o "_" \o sf.name,
            data_type |-> sf.type_info, is_repeated_record |-> FALSE]
           : sf \in StructFields(data_type) }
    ELSE { [column_name |-> column_name, alias_name |-> column_name,
            data_type |-> data_type, is_repeated_record |-> FALSE] }

\* `failed`: the tenants whose catalog query raises in this call
get_table_fields_with_types(cat, t, failed) ==
    IF t \in failed \/ ~cat[t].exists
    THEN {}
    ELSE LET cols == cat[t].columns @@ ControlColumns
         IN  UNION { FlattenRow(c, cols[c]) : c \in DOMAIN cols }

----------------------------------------------------------------------------
(* determine_consensus_type(types, type_info_list)                         *)

\* the type declared first, whatever the others are
first_declared_type(types) == types[1]

determine_consensus_type(types) ==
    LET unique_types == Range(types)
    IN  IF Cardinality(unique_types) = 1
        THEN CHOOSE ty \in unique_types : TRUE
        ELSE "STRING"

(* analyze_data_types_for_table(table_analysis_results):                   *)
(* field_type_analysis[field] is the list of the declared types of the     *)
(* field, one per company result that has it.                              *)

field_type_analysis(results) ==
    LET names == UNION { { r.column_name : r \in results[i].fields_df } : i \in 1..Len(results) }
    IN  [ f \in names |->
            { r.data_type : r \in UNION { { q \in results[i].fields_df : q.column_name = f }
                                          : i \in 1..Len(results) } } ]

\* a conflict only from the third declared type on
HasConflictAboveTwo(unique_types) == Cardinality(unique_types) > 2

\* len(unique_types) > 1
HasConflict(unique_types) == Cardinality(unique_types) > 1

analyze_data_types_for_table(results) ==
    LET fta == field_type_analysis(results)
        conflicting == { f \in DOMAIN fta : HasConflict(fta[f]) }
    IN  [ type_conflicts |->
            [ f \in conflicting |->
                [ types |-> fta[f],
                  consensus_type |-> determine_consensus_type(list(fta[f])) ] ],
          field_consensus |->
            [ f \in (DOMAIN fta) \ conflicting |->
                [ type |-> CHOOSE ty \in fta[f] : TRUE ] ] ]

(* analyze_table_fields_across_companies(table_name, use_bronze,           *)
(* companies_df): companies_df is the sequence of tenants in the order     *)
(* they are supplied.                                                      *)

CompanyResult(cat, t, failed) ==
    LET fields_df == get_table_fields_with_types(cat, t, failed)
        filtered_fields_df == { r \in fields_df : ~StartsWithUnderscore(r.column_name) }
    IN  [ company_id |-> t,
          fields |-> { r.column_name : r \in filtered_fields_df },
          fields_df |-> filtered_fields_df ]

RECURSIVE table_analysis_results(_, _, _)
table_analysis_results(cat, companies_df, failed) ==
    IF companies_df = << >> THEN << >>
    ELSE LET t == Head(companies_df)
             rest == table_analysis_results(cat, Tail(companies_df), failed)
         IN  IF get_table_fields_with_types(cat, t, failed) = {}
             THEN rest
             ELSE << CompanyResult(cat, t, failed) >> \o rest

field_frequency(results) ==
    [ f \in UNION { results[i].fields : i \in 1..Len(results) } |->
        Cardinality({ i \in 1..Len(results) : f \in results[i].fields }) ]

\* the count compared with the number of companies, not of the company results
IsCommonOfAllCompanies(count, total_companies) == count = NumTenants

\* count == total_companies
IsCommon(count, total_companies) == count = total_companies

analyze_table_fields_across_companies(cat, companies_df, failed) ==
    LET results == table_analysis_results(cat, companies_df, failed)
        freq == field_frequency(results)
        total_companies == Len(results)
        types == analyze_data_types_for_table(results)
    IN  IF results = << >>
        THEN None
        ELSE Some([ total_companies |-> total_companies,
                    all_fields |-> sorted(DOMAIN freq),
                    common_fields |-> sorted({ f \in DOMAIN freq : IsCommon(freq[f], total_companies) }),
                    partial_fields |-> sorted({ f \in DOMAIN freq : ~IsCommon(freq[f], total_companies) }),
                    field_consensus |-> types.field_consensus,
                    type_conflicts |-> types.type_conflicts,
                    company_results |-> results,
                    field_frequency |-> freq ])

----------------------------------------------------------------------------
(* build_layout_definition_array(table_analysis)                           *)

\* first_company_fields: alias and repeated flag taken from the first company result
first_company_fields(ta) ==
    LET df == ta.company_results[1].fields_df
    IN  [ f \in { r.column_name : r \in df } |->
            LET row == CHOOSE r \in df : r.column_name = f
            IN  [ alias_name |-> row.alias_name, is_repeated |-> row.is_repeated_record ] ]

all_analyzed_fields(ta) == (DOMAIN ta.field_consensus) \cup (DOMAIN ta.type_conflicts)

\* enumerate(sorted_field_names), from 0
FieldOrderFromZero(index) == index - 1

\* enumerate(sorted_field_names, start=1)
FieldOrder(index) == index

LayoutField(ta, fcf, field_name, order) ==
    LET has_conflict == field_name \in DOMAIN ta.type_conflicts
        known == field_name \in DOMAIN fcf
    IN  [ field_name |-> field_name,
          target_type |-> IF has_conflict
                          THEN ta.type_conflicts[field_name].consensus_type
                          ELSE ta.field_consensus[field_name].type,
          field_order |-> order,
          has_type_conflict |-> has_conflict,
          is_partial |-> field_name \in Range(ta.partial_fields),
          alias_name |-> IF known THEN fcf[field_name].alias_name ELSE field_name,
          is_repeated |-> IF known THEN fcf[field_name].is_repeated ELSE FALSE ]

build_layout_definition_array(ta) ==
    LET sorted_field_names == sorted(all_analyzed_fields(ta))
        fcf == first_company_fields(ta)
    IN  [ i \in 1..Len(sorted_field_names) |->
            LayoutField(ta, fcf, sorted_field_names[i], FieldOrder(i)) ]

----------------------------------------------------------------------------
(* The per-tenant select list.  An item is the pair the code joins as      *)
(* "<expression> as <name>".                                               *)

generate_cast_for_field(field_name, source_type, target_type) ==
    IF source_type = target_type THEN field_name
    ELSE IF target_type = "STRING"
    THEN IF source_type \in {"JSON", "STRUCT", "ARRAY", "RECORD"}
         THEN "COALESCE(TO_JSON_STRING(" \o field_name \o "), '')"
         ELSE "CAST(" \o field_name \o " AS STRING)"
    ELSE IF source_type = "STRING"
    THEN "CAST(" \o field_name \o " AS STRING)"
    ELSE "SAFE_CAST(" \o field_name \o " AS " \o target_type \o ")"

\* the keys of the `defaults` dictionary
TypedDefaults ==
    {"STRING", "INT64", "FLOAT64", "BOOL", "DATE", "DATETIME", "TIMESTAMP", "JSON", "BYTES"}

\* a null without a type
untyped_null(data_type) == "NULL"

get_default_value_for_type_with_cast(data_type) ==
    IF data_type \in TypedDefaults
    THEN "CAST(NULL AS " \o data_type \o ")"
    ELSE "NULL"

\* the body of the loop over the layout, for one layout field
SelectItem(field_info, company_fields) ==
    LET field_name == field_info.field_name
        target_type == field_info.target_type
    IN  IF field_name \in DOMAIN company_fields
        THEN LET source_type == company_fields[field_name]
             IN  [ expression |->
                     IF field_info.is_repeated
                     THEN "TO_JSON_STRING(" \o field_name \o ")"
                     ELSE IF source_type = target_type
                     THEN field_name
                     ELSE generate_cast_for_field(field_name, source_type, target_type),
                   as |-> field_info.alias_name ]
        ELSE [ expression |-> get_default_value_for_type_with_cast(target_type),
               as |-> field_name ]

\* company_fields: column_name -> data_type of one company result
company_fields_of(company_result) ==
    [ f \in { r.column_name : r \in company_result.fields_df } |->
        (CHOOSE r \in company_result.fields_df : r.column_name = f).data_type ]

\* an item only for the layout fields the company has
silver_fields_of_present(company_result, layout) ==
    LET company_fields == company_fields_of(company_result)
        present == SelectSeq(layout, LAMBDA field_info : field_info.field_name \in DOMAIN company_fields)
    IN  [ i \in 1..Len(present) |-> SelectItem(present[i], company_fields) ]

\* silver_fields: one item per field of the layout, in the layout's order
silver_fields(company_result, layout) ==
    LET company_fields == company_fields_of(company_result)
    IN  [ i \in 1..Len(layout) |-> SelectItem(layout[i], company_fields) ]

generate_silver_view_sql_from_metadata(company_result, layout) ==
    LET fields == silver_fields(company_result, layout)
    IN  IF fields = << >> THEN None ELSE Some(fields)

\* layout is build_layout_definition_array(table_analysis), which the code calls again here
generate_sample_view_ddl(ta, layout) ==
    Some(silver_fields(ta.company_results[1], layout))

----------------------------------------------------------------------------
(* metadata_consolidated_tables: the row of the table                      *)

\* SQL NULL in a STRING column; a NULL array reads as the empty list, a NULL flag as False
SqlNull == "NULL"

\* WHEN NOT MATCHED THEN INSERT (table_name, silver_..., created_at, updated_at)
InsertSilver(layout, view_ddl, now) ==
    [ silver_layout_definition |-> layout,
      silver_view_ddl |-> view_ddl,
      silver_analysis_timestamp |-> Some(now),
      silver_status |-> "completed",
      silver_use_bronze |-> FALSE,
      partition_fields |-> << >>,
      cluster_fields |-> << >>,
      update_strategy |-> SqlNull,
      updated_at |-> now ]

\* a save that writes the row anew
save_analysis_replacing_row(row, layout, view_ddl, now) ==
    Some(InsertSilver(layout, view_ddl, now))

\* the MERGE of save_analysis_to_metadata on the row of the table (None: no row yet)
save_analysis_to_metadata(row, layout, view_ddl, now) ==
    IF row = None
    THEN Some(InsertSilver(layout, view_ddl, now))
    ELSE Some([ Get(row) EXCEPT !.silver_layout_definition = layout,
                                !.silver_view_ddl = view_ddl,
                                !.silver_analysis_timestamp = Some(now),
                                !.silver_status = "completed",
                                !.silver_use_bronze = FALSE,
                                !.updated_at = now ])

(* ConsolidatedMetadataManager                                             *)

get_default_metadata ==
    [ partition_fields |-> << "created_on", "updated_on", "date_created" >>,
      cluster_fields |-> << "company_id" >>,
      update_strategy |-> "incremental" ]

\* read_ok: the query did not raise
get_table_metadata(row, read_ok) ==
    IF ~read_ok \/ row = None THEN get_default_metadata
    ELSE [ partition_fields |-> Get(row).partition_fields,
           cluster_fields |-> Get(row).cluster_fields,
           update_strategy |-> Get(row).update_strategy ]

\* value or current: Python's or takes the current value for None and for an empty value
OrCurrent(value, current, empty) ==
    IF value = None THEN current
    ELSE IF Get(value) = empty THEN current
    ELSE Get(value)

\* the MERGE of update_table_metadata on the row of the table
update_table_metadata_row(row, partition_fields, cluster_fields, update_strategy, now, read_ok) ==
    LET current_metadata == get_table_metadata(row, read_ok)
        new_partition_fields == OrCurrent(partition_fields, current_metadata.partition_fields, << >>)
        cluster == OrCurrent(cluster_fields, current_metadata.cluster_fields, << >>)
        new_cluster_fields == IF Len(cluster) > 4 THEN SubSeq(cluster, 1, 4) ELSE cluster
        new_update_strategy == OrCurrent(update_strategy, current_metadata.update_strategy, "")
    IN  IF row = None
        THEN Some([ silver_layout_definition |-> << >>,
                    silver_view_ddl |-> None,
                    silver_analysis_timestamp |-> None,
                    silver_status |-> SqlNull,
                    silver_use_bronze |-> FALSE,
                    partition_fields |-> new_partition_fields,
                    cluster_fields |-> new_cluster_fields,
                    update_strategy |-> new_update_strategy,
                    updated_at |-> now ])
        ELSE Some([ Get(row) EXCEPT !.partition_fields = new_partition_fields,
                                    !.cluster_fields = new_cluster_fields,
                                    !.update_strategy = new_update_strategy,
                                    !.updated_at = now ])

\* the list in the order it was read
InStoredOrder(s) == s

\* list.sort(key=lambda x: x['field_order']): a stable insertion sort
RECURSIVE InsertByFieldOrder(_, _)
InsertByFieldOrder(x, s) ==
    IF s = << >> THEN << x >>
    ELSE IF s[Len(s)].field_order <= x.field_order
    THEN Append(s, x)
    ELSE Append(InsertByFieldOrder(x, SubSeq(s, 1, Len(s) - 1)), s[Len(s)])

RECURSIVE SortByFieldOrder(_)
SortByFieldOrder(s) ==
    IF s = << >> THEN << >>
    ELSE InsertByFieldOrder(s[Len(s)], SortByFieldOrder(SubSeq(s, 1, Len(s) - 1)))

\* read_ok: the query did not raise
get_table_metadata_from_metadata_table(row, read_ok) ==
    IF ~read_ok \/ row = None THEN None
    ELSE IF Len(Get(row).silver_layout_definition) = 0 THEN None
    ELSE Some([ layout_definition |-> SortByFieldOrder(Get(row).silver_layout_definition),
                use_bronze |-> Get(row).silver_use_bronze,
                status |-> Get(row).silver_status ])

\* is the table in the list get_tables_from_metadata returns
get_tables_from_metadata(row, read_ok) ==
    /\ read_ok
    /\ row # None
    /\ Len(Get(row).silver_layout_definition) > 0
    /\ Get(row).silver_status = "completed"

----------------------------------------------------------------------------
(* The state machine *)

NoSummary == [success |-> 0, errors |-> 0, skipped |-> 0]

\* the table without data counted with the errors
SkippedAsError == [NoSummary EXCEPT !.errors = 1]

\* results_summary['skipped'] += 1
SkippedSummary == [NoSummary EXCEPT !.skipped = 1]

\* the locals of a run are gone once another operation has taken place
NoAnalysisRun ==
    /\ table_analysis' = None
    /\ layout_array' = None
    /\ results_summary' = NoSummary

NoGenerationRun ==
    /\ layout_definition' = None
    /\ sql' = [t \in Tenants |-> None]

InitRuns ==
    /\ metadata = None
    /\ table_analysis = None
    /\ layout_array = None
    /\ results_summary = NoSummary
    /\ layout_definition = None
    /\ sql = [t \in Tenants |-> None]
    /\ views = [t \in Tenants |-> None]
    /\ tracking = [t \in Tenants |-> None]
    /\ last_op = "init"
    /\ runs = 0

NoCalls ==
    /\ type_list = << >>
    /\ consensus_type = None
    /\ cast_call = None

NoPasses == passes = [p \in Passes |-> IdlePass]

NoRetry == [pc |-> "idle", attempt |-> 0, created |-> FALSE, errors |-> << >>]

Callers == 1..NumCallers

NoStatements ==
    /\ clock = 0
    /\ sql_call = None
    /\ companies_consolidated = << >>
    /\ status_calls = << >>
    /\ retry = NoRetry
    /\ callers = [p \in Callers |-> [pc |-> "start"]]
    /\ legacy_analysis = None

Init ==
    /\ catalog = [t \in Tenants |-> NoTable]
    /\ InitRuns
    /\ NoCalls
    /\ NoPasses
    /\ NoStatements

\* the data types of the warehouse that the program names, and those of the catalog
DataTypes == TypedDefaults \cup UNION { ColumnTypes[c] : c \in ColumnNames }

TotalColumns(cat) ==
    LET RECURSIVE Sum(_)
        Sum(S) == IF S = {} THEN 0
                  ELSE LET t == CHOOSE x \in S : TRUE
                       IN  Cardinality(DOMAIN cat[t].columns) + Sum(S \ {t})
    IN  Sum(Tenants)

(* The environment: Fivetran creates the table in a tenant's dataset, or   *)
(* the tenant's table gains a column.                                      *)
CreateTable(t) ==
    /\ ~catalog[t].exists
    /\ catalog' = [catalog EXCEPT ![t] = Table(<< >>)]
    /\ last_op' = "catalog"
    /\ UNCHANGED <<runs, otherVars>>
    /\ NoAnalysisRun
    /\ NoGenerationRun
    /\ UNCHANGED <<metadata, views, tracking>>

AddColumn(t, c, ty) ==
    /\ catalog[t].exists
    /\ c \notin DOMAIN catalog[t].columns
    /\ TotalColumns(catalog) < MaxColumns
    /\ catalog' = [catalog EXCEPT ![t] = Table(catalog[t].columns @@ (c :> ty))]
    /\ last_op' = "catalog"
    /\ UNCHANGED <<runs, otherVars>>
    /\ NoAnalysisRun
    /\ NoGenerationRun
    /\ UNCHANGED <<metadata, views, tracking>>

\* the clock of the machine moves on
Tick ==
    /\ clock < MaxClock
    /\ clock' = clock + 1
    /\ UNCHANGED <<catalog, metadata, table_analysis, layout_array, results_summary,
                   layout_definition, sql, views, tracking, last_op, runs,
                   type_list, consensus_type, cast_call, passes, legacy_analysis, sql_call, trackingVars>>

\* get_companies_info: ORDER BY company_id
get_companies_info == [ i \in 1..NumTenants |-> i ]

(* analyze_all_tables, for the table and the Fivetran source.              *)
(*   list_failed: tenants whose table listing raises (get_tables_dynamically) *)
(*   failed:      tenants whose column lookup raises                       *)
(*   save_ok:     the MERGE did not raise                                  *)
analyze_all_tables(list_failed, failed, save_ok) ==
    LET companies_df == get_companies_info
        listed == \E t \in Tenants : catalog[t].exists /\ t \notin list_failed
        ta == analyze_table_fields_across_companies(catalog, companies_df, failed)
        layout == build_layout_definition_array(Get(ta))
        view_ddl == generate_sample_view_ddl(Get(ta), layout)
    IN  /\ runs < MaxRuns
        /\ runs' = runs + 1
        /\ last_op' = "analyze"
        /\ IF ~listed
           THEN /\ table_analysis' = None
                /\ layout_array' = None
                /\ results_summary' = NoSummary
                /\ UNCHANGED metadata
           ELSE IF ta = None
           THEN /\ table_analysis' = None
                /\ layout_array' = None
                /\ results_summary' = SkippedSummary
                /\ UNCHANGED metadata
           ELSE /\ table_analysis' = ta
                /\ layout_array' = Some(layout)
                /\ IF save_ok
                   THEN /\ metadata' = save_analysis_to_metadata(metadata, layout, view_ddl, clock)
                        /\ results_summary' = [NoSummary EXCEPT !.success = 1]
                   ELSE /\ UNCHANGED metadata
                        /\ results_summary' = [NoSummary EXCEPT !.errors = 1]
        /\ NoGenerationRun
        /\ UNCHANGED <<catalog, views, tracking, otherVars>>

(* generate_all_silver_views(use_metadata=True), for the table.            *)
(*   specific_company_id: None or the one company to process               *)
(*   tables_ok, metadata_ok: the two reads of the metadata table did not raise *)
(*   failed:        tenants whose column lookup raises                     *)
(*   create_failed: tenants whose CREATE OR REPLACE VIEW fails max_retries times *)
generate_all_silver_views(specific_company_id, tables_ok, metadata_ok, failed, create_failed) ==
    LET companies_df == IF specific_company_id = None
                        THEN get_companies_info
                        ELSE SelectSeq(get_companies_info, LAMBDA t : t = Get(specific_company_id))
        metadata_info == get_table_metadata_from_metadata_table(metadata, metadata_ok)
        layout == Get(metadata_info).layout_definition
        company_results == table_analysis_results(catalog, companies_df, failed)
        with_table == { company_results[i].company_id : i \in 1..Len(company_results) }
        result_of(t) == company_results[CHOOSE i \in 1..Len(company_results) :
                                            company_results[i].company_id = t]
        sql_content == [ t \in Tenants |->
                           IF t \in with_table
                           THEN generate_silver_view_sql_from_metadata(result_of(t), layout)
                           ELSE None ]
    IN  /\ runs < MaxRuns
        /\ runs' = runs + 1
        /\ last_op' = "generate"
        /\ NoAnalysisRun
        /\ UNCHANGED <<catalog, metadata, otherVars>>
        /\ IF ~get_tables_from_metadata(metadata, tables_ok)
           THEN /\ layout_definition' = None
                /\ sql' = [t \in Tenants |-> None]
                /\ UNCHANGED <<views, tracking>>
           ELSE IF metadata_info = None
           THEN /\ layout_definition' = None
                /\ sql' = [t \in Tenants |-> None]
                /\ tracking' = [t \in Tenants |->
                                   IF t \in Range(companies_df) THEN Some(0) ELSE tracking[t]]
                /\ UNCHANGED views
           ELSE IF company_results = << >>
           THEN /\ layout_definition' = Some(layout)
                /\ sql' = [t \in Tenants |-> None]
                /\ tracking' = [t \in Tenants |->
                                   IF t \in Range(companies_df) THEN Some(0) ELSE tracking[t]]
                /\ UNCHANGED views
           ELSE /\ layout_definition' = Some(layout)
                /\ sql' = sql_content
                /\ views' = [t \in Tenants |->
                                IF sql_content[t] # None /\ t \notin create_failed
                                THEN sql_content[t]
                                ELSE views[t]]
                /\ tracking' = [t \in Tenants |->
                                   IF t \notin with_table THEN tracking[t]
                                   ELSE IF sql_content[t] = None \/ t \in create_failed
                                   THEN Some(2)
                                   ELSE Some(1)]

\* the tenants for which a failing query differs from a succeeding one
HasTable == { t \in Tenants : catalog[t].exists }

Next ==
    \/ \E t \in Tenants : CreateTable(t)
    \/ \E t \in Tenants, c \in ColumnNames : \E ty \in ColumnTypes[c] : AddColumn(t, c, ty)
    \/ \E list_failed \in SUBSET HasTable, failed \in SUBSET HasTable, save_ok \in BOOLEAN :
            analyze_all_tables(list_failed, failed, save_ok)
    \/ \E specific_company_id \in {None} \cup { Some(t) : t \in Tenants },
          tables_ok \in BOOLEAN, metadata_ok \in BOOLEAN,
          failed \in SUBSET HasTable :
            \E create_failed \in SUBSET (HasTable \ failed) :
                generate_all_silver_views(specific_company_id, tables_ok, metadata_ok, failed, create_failed)

Spec == Init /\ [][Next]_vars

----------------------------------------------------------------------------
(* One analysis run over each catalog of the bounds: the analysis reads    *)
(* nothing that an earlier run wrote.                                      *)

Schemas ==
    { NoTable } \cup
    { Table(cols) : cols \in
        { f \in UNION { [S -> DataTypes] : S \in SUBSET ColumnNames } :
            \A c \in DOMAIN f : f[c] \in ColumnTypes[c] } }

AllCatalogs == { cat \in [Tenants -> Schemas] : TotalColumns(cat) <= MaxColumns }

InitCatalogs ==
    /\ catalog \in AllCatalogs
    /\ InitRuns
    /\ NoCalls
    /\ NoPasses
    /\ NoStatements

NextLayout ==
    /\ last_op = "init"
    /\ \E list_failed \in SUBSET HasTable, failed \in SUBSET HasTable, save_ok \in BOOLEAN :
            analyze_all_tables(list_failed, failed, save_ok)

SpecLayout == InitCatalogs /\ [][NextLayout]_vars

----------------------------------------------------------------------------
(* The runs over two tenants of which the first declares id INT64 and      *)
(* name STRING, and the second id STRING, name STRING and note STRING.     *)

ExampleCatalog ==
    [ t \in Tenants |->
        IF t = 1 THEN Table([ id |-> "INT64", name |-> "STRING" ])
        ELSE IF t = 2 THEN Table([ id |-> "STRING", name |-> "STRING", note |-> "STRING" ])
        ELSE NoTable ]

InitExample ==
    /\ catalog = ExampleCatalog
    /\ InitRuns
    /\ NoCalls
    /\ NoPasses
    /\ NoStatements

NextExample ==
    \/ \E list_failed \in SUBSET HasTable, failed \in SUBSET HasTable, save_ok \in BOOLEAN :
            analyze_all_tables(list_failed, failed, save_ok)
    \/ \E specific_company_id \in {None} \cup { Some(t) : t \in Tenants },
          tables_ok \in BOOLEAN, metadata_ok \in BOOLEAN,
          failed \in SUBSET HasTable :
            \E create_failed \in SUBSET (HasTable \ failed) :
                generate_all_silver_views(specific_company_id, tables_ok, metadata_ok, failed, create_failed)

SpecExample == InitExample /\ [][NextExample]_vars

----------------------------------------------------------------------------
(* The runs that follow a first analysis and generation over the two       *)
(* tenants above: the layout of the first analysis is persisted (failed:   *)
(* the tenants whose column lookup raised in it), every tenant has its     *)
(* view from that layout and the status 1.                                 *)

InitGenerated ==
    /\ catalog = ExampleCatalog
    /\ \E failed \in (SUBSET {1, 2}) \ {{1, 2}} :
            LET ta == Get(analyze_table_fields_across_companies(
                            ExampleCatalog, get_companies_info, failed))
                layout == build_layout_definition_array(ta)
            IN  /\ metadata = save_analysis_to_metadata(
                                  None, layout, generate_sample_view_ddl(ta, layout), 0)
                /\ views = [ t \in Tenants |->
                                IF ExampleCatalog[t].exists
                                THEN generate_silver_view_sql_from_metadata(
                                        CompanyResult(ExampleCatalog, t, {}), layout)
                                ELSE None ]
    /\ tracking = [ t \in Tenants |-> IF ExampleCatalog[t].exists THEN Some(1) ELSE None ]
    /\ table_analysis = None
    /\ layout_array = None
    /\ results_summary = NoSummary
    /\ layout_definition = None
    /\ sql = [t \in Tenants |-> None]
    /\ last_op = "init"
    /\ runs = 0
    /\ NoCalls
    /\ NoPasses
    /\ NoStatements

SpecGenerated == InitGenerated /\ [][NextExample]_vars

----------------------------------------------------------------------------
(* The two writers of the table's row of metadata_consolidated_tables:     *)
(* the analysis runs over the two tenants above, and update_table_metadata *)

PartitionFields == { << "updated_on", "created_on" >> }
ClusterFields == { << "company_id" >>, << "company_id", "id", "name", "note", "addr" >> }
UpdateStrategies == { "incremental", "full" }

\* read_ok, merge_ok: the SELECT of get_table_metadata and the MERGE did not raise
update_table_metadata(partition_fields, cluster_fields, update_strategy, read_ok, merge_ok) ==
    /\ last_op' = "metadata"
    /\ metadata' = IF merge_ok
                   THEN update_table_metadata_row(metadata, partition_fields, cluster_fields,
                                                  update_strategy, clock, read_ok)
                   ELSE metadata
    /\ NoAnalysisRun
    /\ NoGenerationRun
    /\ UNCHANGED <<catalog, views, tracking, runs, otherVars>>

NextMetadata ==
    \/ Tick
    \/ \E list_failed \in SUBSET HasTable, failed \in SUBSET HasTable, save_ok \in BOOLEAN :
            analyze_all_tables(list_failed, failed, save_ok)
    \/ \E partition_fields \in {None} \cup { Some(x) : x \in PartitionFields },
          cluster_fields \in {None} \cup { Some(x) : x \in ClusterFields },
          update_strategy \in {None} \cup { Some(x) : x \in UpdateStrategies },
          read_ok \in BOOLEAN, merge_ok \in BOOLEAN :
            update_table_metadata(partition_fields, cluster_fields, update_strategy,
                                  read_ok, merge_ok)

SpecMetadata == InitExample /\ [][NextMetadata]_vars

----------------------------------------------------------------------------
(* determine_consensus_type called on every short list of declared types *)

TypeLists == UNION { [1..n -> DataTypes] : n \in 1..MaxObservations }

InitConsensus ==
    /\ catalog = [t \in Tenants |-> NoTable]
    /\ InitRuns
    /\ type_list \in TypeLists
    /\ consensus_type = None
    /\ cast_call = None
    /\ NoPasses
    /\ NoStatements

call_determine_consensus_type ==
    /\ consensus_type = None
    /\ consensus_type' = Some(determine_consensus_type(type_list))
    /\ UNCHANGED <<catalog, metadata, table_analysis, layout_array, results_summary,
                   layout_definition, sql, views, tracking, last_op, runs, type_list,
                   cast_call, passes, callVars>>

SpecConsensus == InitConsensus /\ [][call_determine_consensus_type]_vars

----------------------------------------------------------------------------
(* generate_cast_for_field called on every pair of a declared type and a   *)
(* target type                                                             *)

\* the type names generate_cast_for_field tests for, besides the data types
SourceTypes == DataTypes \cup {"STRUCT", "ARRAY", "RECORD"}

CastCalls ==
    [ field_name : {"id", "addr.city"}, source_type : SourceTypes, target_type : DataTypes,
      expression : {None} ]

InitCast ==
    /\ catalog = [t \in Tenants |-> NoTable]
    /\ InitRuns
    /\ type_list = << >>
    /\ consensus_type = None
    /\ cast_call \in { Some(c) : c \in CastCalls }
    /\ NoPasses
    /\ NoStatements

call_generate_cast_for_field ==
    /\ cast_call # None
    /\ Get(cast_call).expression = None
    /\ cast_call' = Some([Get(cast_call) EXCEPT !.expression =
            Some(generate_cast_for_field(Get(cast_call).field_name,
                                         Get(cast_call).source_type,
                                         Get(cast_call).target_type))])
    /\ UNCHANGED <<catalog, metadata, table_analysis, layout_array, results_summary,
                   layout_definition, sql, views, tracking, last_op, runs,
                   type_list, consensus_type, passes, callVars>>

SpecCast == InitCast /\ [][call_generate_cast_for_field]_vars

----------------------------------------------------------------------------
(* generate_silver_view_sql_from_metadata called again with the arguments  *)
(* of its last call: a tenant that has the table and the layout built from *)
(* the catalog, which does not change in between.                          *)

\* the statement: the header comment with the time of generation, and the select list
view_statement(company_result, layout, generated_at) ==
    LET fields == generate_silver_view_sql_from_metadata(company_result, layout)
    IN  IF fields = None THEN None
        ELSE Some([ generated_at |-> generated_at, silver_fields |-> Get(fields) ])

call_generate_silver_view_sql_from_metadata(t) ==
    LET ta == analyze_table_fields_across_companies(catalog, get_companies_info, {})
        layout == build_layout_definition_array(Get(ta))
        statement == view_statement(CompanyResult(catalog, t, {}), layout, clock)
        returned == IF sql_call = None THEN << >> ELSE Get(sql_call).returned
    IN  /\ ta # None
        /\ get_table_fields_with_types(catalog, t, {}) # {}
        /\ sql_call # None => Get(sql_call).company_id = t
        /\ Len(returned) < MaxCalls
        /\ sql_call' = Some([ company_id |-> t, returned |-> Append(returned, statement) ])
        /\ UNCHANGED <<catalog, metadata, table_analysis, layout_array, results_summary,
                       layout_definition, sql, views, tracking, last_op, runs,
                       type_list, consensus_type, cast_call, passes, legacy_analysis, clock, trackingVars>>

NextStatements ==
    \/ Tick
    \/ \E t \in Tenants : call_generate_silver_view_sql_from_metadata(t)

SpecStatements == InitCatalogs /\ [][NextStatements]_vars

----------------------------------------------------------------------------
(* ConsolidationTrackingManager.update_status for one (company_id,         *)
(* table_name) pair.  companies_consolidated is the list of the rows of    *)
(* the pair: the table has no key, INSERT appends a row.                   *)

\* the error messages and notes the callers pass; None is Python's None
ErrorMessages == { "Timeout", "Syntax error: Unexpected '.'" }
Notes ==
    { "Tabla no existe", "Tabla no tiene layout en metadatos", "Vista creada exitosamente",
      "Error generando SQL", "Error al crear vista" }

\* f"'{text}'" with a quote in text does not give a string literal: the query raises
BreaksLiteral(text) == text \in { "Syntax error: Unexpected '.'" }

\* {f"'{text}'" if text else 'NULL'}: the value the statement stores
StoredText(text) == IF text = None \/ text = Some("") THEN None ELSE text

\* INSERT INTO ... VALUES (..., CURRENT_TIMESTAMP(), CURRENT_TIMESTAMP(), ...)
InsertRow(rows, status, error_message, notes, now) ==
    Append(rows, [ consolidated_status |-> status,
                   created_at |-> now,
                   updated_at |-> now,
                   error_message |-> StoredText(error_message),
                   notes |-> StoredText(notes) ])

\* an update that also sets created_at
UpdateRowsAndCreatedAt(rows, status, error_message, notes, now) ==
    [ i \in 1..Len(rows) |-> InsertRow(<< >>, status, error_message, notes, now)[1] ]

\* UPDATE ... SET ... WHERE company_id = ... AND table_name = ...: every row of the pair
UpdateRows(rows, status, error_message, notes, now) ==
    [ i \in 1..Len(rows) |->
        [ rows[i] EXCEPT !.consolidated_status = status,
                         !.updated_at = now,
                         !.error_message = StoredText(error_message),
                         !.notes = StoredText(notes) ] ]

\* does one of the two queries of the call raise
Raises(error_message, notes, queries_ok) ==
    \/ ~queries_ok
    \/ error_message # None /\ BreaksLiteral(Get(error_message))
    \/ notes # None /\ BreaksLiteral(Get(notes))

\* the whole call: the rows afterwards and the value returned
update_status(rows, status, error_message, notes, now, queries_ok) ==
    IF Raises(error_message, notes, queries_ok)
    THEN [ rows |-> rows, returned |-> FALSE ]
    ELSE [ rows |-> IF rows = << >>
                    THEN InsertRow(rows, status, error_message, notes, now)
                    ELSE UpdateRows(rows, status, error_message, notes, now),
           returned |-> TRUE ]

StatusCall(status, error_message, notes, now, returned) ==
    [ status |-> status, error_message |-> error_message, notes |-> notes,
      at |-> now, returned |-> returned ]

----------------------------------------------------------------------------
(* update_status called for the pair one call after the other              *)

\* status, error_message and notes as the callers of the repository pass them
StatusArguments ==
    { [ status |-> 0, error_message |-> None, notes |-> Some("Tabla no existe") ],
      [ status |-> 1, error_message |-> None, notes |-> Some("Vista creada exitosamente") ],
      [ status |-> 1, error_message |-> None, notes |-> None ],
      [ status |-> 2, error_message |-> None, notes |-> Some("Error generando SQL") ],
      [ status |-> 2, error_message |-> Some("Timeout"), notes |-> Some("Error al crear vista") ],
      [ status |-> 2, error_message |-> Some("Syntax error: Unexpected '.'"),
        notes |-> Some("Error al crear vista") ] }

call_update_status(args, queries_ok) ==
    LET call == update_status(companies_consolidated, args.status, args.error_message,
                              args.notes, clock, queries_ok)
    IN  /\ Len(status_calls) < MaxStatusCalls
        /\ companies_consolidated' = call.rows
        /\ status_calls' = Append(status_calls,
                StatusCall(args.status, args.error_message, args.notes, clock, call.returned))
        /\ UNCHANGED <<catalog, metadata, table_analysis, layout_array, results_summary,
                       layout_definition, sql, views, tracking, last_op, runs,
                       type_list, consensus_type, cast_call, passes, legacy_analysis, clock, sql_call, retry,
                       callers>>

NextTracking ==
    \/ Tick
    \/ \E args \in StatusArguments, queries_ok \in BOOLEAN : call_update_status(args, queries_ok)

SpecTracking == Init /\ [][NextTracking]_vars

----------------------------------------------------------------------------
(* update_status called for the pair by jobs that run at the same time.    *)
(* The call is two queries: the SELECT that looks for a row, and the       *)
(* INSERT or UPDATE chosen from what the SELECT returned.                  *)

\* existing = self.client.query(query).to_dataframe()
select_existing(p, args, query_ok) ==
    /\ callers[p].pc = "start"
    /\ callers' = [callers EXCEPT ![p] =
            IF query_ok
            THEN [ pc |-> "selected", args |-> args,
                   existing_empty |-> companies_consolidated = << >> ]
            ELSE [ pc |-> "done", args |-> args, returned |-> FALSE ]]
    /\ UNCHANGED <<catalog, metadata, table_analysis, layout_array, results_summary,
                   layout_definition, sql, views, tracking, last_op, runs,
                   type_list, consensus_type, cast_call, passes, legacy_analysis, clock, sql_call,
                   companies_consolidated, status_calls, retry>>

\* self.client.query(insert_query).result()
write_status(p, query_ok) ==
    LET args == callers[p].args
        raises == Raises(args.error_message, args.notes, query_ok)
    IN  /\ callers[p].pc = "selected"
        /\ callers' = [callers EXCEPT ![p] =
                [ pc |-> "done", args |-> args, returned |-> ~raises ]]
        /\ companies_consolidated' =
                IF raises THEN companies_consolidated
                ELSE IF callers[p].existing_empty
                THEN InsertRow(companies_consolidated, args.status, args.error_message,
                               args.notes, clock)
                ELSE UpdateRows(companies_consolidated, args.status, args.error_message,
                                args.notes, clock)
        /\ UNCHANGED <<catalog, metadata, table_analysis, layout_array, results_summary,
                       layout_definition, sql, views, tracking, last_op, runs,
                       type_list, consensus_type, cast_call, passes, legacy_analysis, clock, sql_call,
                       status_calls, retry>>

NextCallers ==
    \/ \E p \in Callers, args \in StatusArguments, query_ok \in BOOLEAN :
            select_existing(p, args, query_ok)
    \/ \E p \in Callers, query_ok \in BOOLEAN : write_status(p, query_ok)

SpecCallers == Init /\ [][NextCallers]_vars

----------------------------------------------------------------------------
(* The loop of generate_all_silver_views that creates the view of one      *)
(* (table, company) pair for which SQL was generated.                      *)

max_retries == 3

\* the row an earlier run left for the pair, if any
EarlierRows ==
    { << >> } \cup
    { InsertRow(<< >>, 0, None, Some("Tabla no existe"), 0),
      InsertRow(<< >>, 0, None, Some("Tabla no tiene layout en metadatos"), 0),
      InsertRow(<< >>, 1, None, Some("Vista creada exitosamente"), 0),
      InsertRow(<< >>, 2, None, Some("Error generando SQL"), 0),
      InsertRow(<< >>, 2, Some("Timeout"), Some("Error al crear vista"), 0) }

InitRetry ==
    /\ catalog = [t \in Tenants |-> NoTable]
    /\ InitRuns
    /\ NoCalls
    /\ NoPasses
    /\ clock = 0
    /\ sql_call = None
    /\ companies_consolidated \in EarlierRows
    /\ status_calls = << >>
    /\ retry = [NoRetry EXCEPT !.pc = "loop"]
    /\ callers = [p \in Callers |-> [pc |-> "start"]]
    /\ legacy_analysis = None

\* one pass of the for loop: client.query(sql_content).result() succeeds (error = None)
\* or raises with the message error; queries_ok: the queries of update_status do not raise
attempt_create_view(error, queries_ok) ==
    LET attempt == retry.attempt
        success == error = None
        last == attempt = max_retries - 1
        status == IF success THEN 1 ELSE 2
        notes == IF success THEN Some("Vista creada exitosamente") ELSE Some("Error al crear vista")
        call == update_status(companies_consolidated, status, error, notes, clock, queries_ok)
    IN  /\ retry.pc = "loop"
        /\ attempt < max_retries
        /\ retry' = [ pc |-> IF success \/ last THEN "done" ELSE "loop",
                       attempt |-> attempt + 1,
                       created |-> success,
                       errors |-> IF success THEN retry.errors ELSE Append(retry.errors, Get(error)) ]
        /\ IF success \/ last
           THEN /\ companies_consolidated' = call.rows
                /\ status_calls' = Append(status_calls,
                        StatusCall(status, error, notes, clock, call.returned))
           ELSE UNCHANGED <<companies_consolidated, status_calls>>
        /\ UNCHANGED <<catalog, metadata, table_analysis, layout_array, results_summary,
                       layout_definition, sql, views, tracking, last_op, runs,
                       type_list, consensus_type, cast_call, passes, legacy_analysis, clock, sql_call, callers>>

NextRetry ==
    \E error \in {None} \cup { Some(e) : e \in ErrorMessages }, queries_ok \in BOOLEAN :
        attempt_create_view(error, queries_ok)

SpecRetry == InitRetry /\ [][NextRetry]_vars

----------------------------------------------------------------------------
(* src/generate_silver_views.py, the generator without persisted layout:   *)
(* its analyze_data_types_for_table, called by its                         *)
(* analyze_table_fields_across_companies on the company results.           *)

\* column_name.str.startswith('_fivetran')
StartsWithFivetran(name) == name \in DOMAIN ControlColumns

\* the columns of the tenant as INFORMATION_SCHEMA lists them, STRUCTs not flattened
legacy_fields_df(cat, t) ==
    IF ~cat[t].exists THEN {}
    ELSE LET cols == cat[t].columns @@ ControlColumns
         IN  { [column_name |-> c, data_type |-> cols[c]] : c \in DOMAIN cols }

RECURSIVE legacy_table_analysis_results(_, _)
legacy_table_analysis_results(cat, companies_df) ==
    IF companies_df = << >> THEN << >>
    ELSE LET t == Head(companies_df)
             fields_df == legacy_fields_df(cat, t)
             rest == legacy_table_analysis_results(cat, Tail(companies_df))
         IN  IF fields_df = {} THEN rest
             ELSE << [ company_id |-> t,
                       fields_df |-> { r \in fields_df : ~StartsWithFivetran(r.column_name) } ] >>
                  \o rest

FieldsOfResult(result) == { r.column_name : r \in result.fields_df }

\* the keys that field_type_analysis got last: the new fields of the last company
\* result that has new fields (their order is the tables' column order)
LastInserted(results) ==
    LET new(i) == FieldsOfResult(results[i]) \ UNION { FieldsOfResult(results[j]) : j \in 1..(i - 1) }
        with_new == { i \in 1..Len(results) : new(i) # {} }
    IN  IF with_new = {} THEN {}
        ELSE new(CHOOSE i \in with_new : \A j \in with_new : j <= i)

type_priority(data_type) ==
    CASE data_type = "STRING" -> 1
      [] data_type = "INT64" -> 2
      [] data_type = "FLOAT64" -> 3
      [] data_type = "BOOL" -> 4
      [] data_type = "DATE" -> 5
      [] data_type = "DATETIME" -> 6
      [] data_type = "TIMESTAMP" -> 7
      [] data_type = "JSON" -> 8
      [] data_type = "BYTES" -> 9
      [] OTHER -> 999

legacy_determine_consensus_type(types) ==
    IF "STRING" \in types THEN "STRING"
    ELSE IF "FLOAT64" \in types THEN "FLOAT64"
    ELSE IF "INT64" \in types THEN "INT64"
    ELSE CHOOSE ty \in types : \A other \in types : type_priority(ty) <= type_priority(other)

\* the loop over field_type_analysis: its else belongs to the for, and runs once
\* after the loop with the field_name and unique_types of the last pass
\*   last:       the field of the last pass
\*   first_type: unique_types[0] of the last pass
legacy_analyze_data_types_for_table(results, last, first_type) ==
    LET fta == field_type_analysis(results)
        conflicting == { f \in DOMAIN fta : HasConflict(fta[f]) }
    IN  [ raised |-> FALSE,
          type_conflicts |->
            [ f \in conflicting |->
                [ types |-> fta[f],
                  consensus_type |-> legacy_determine_consensus_type(fta[f]) ] ],
          field_consensus |-> [ f \in {last} |-> [ type |-> first_type ] ] ]

\* with no field at all the else reads field_name before any assignment
LegacyRaised == [ raised |-> TRUE, type_conflicts |-> << >>, field_consensus |-> << >> ]

call_legacy_analyze_data_types_for_table ==
    LET results == legacy_table_analysis_results(catalog, get_companies_info)
        fta == field_type_analysis(results)
    IN  /\ legacy_analysis = None
        /\ results # << >>
        /\ IF DOMAIN fta = {}
           THEN legacy_analysis' = Some(LegacyRaised)
           ELSE \E last \in LastInserted(results) : \E first_type \in fta[last] :
                    legacy_analysis' =
                        Some(legacy_analyze_data_types_for_table(results, last, first_type))
        /\ UNCHANGED <<catalog, metadata, table_analysis, layout_array, results_summary,
                       layout_definition, sql, views, tracking, last_op, runs,
                       type_list, consensus_type, cast_call, passes, clock, sql_call,
                       trackingVars>>

SpecLegacy == InitCatalogs /\ [][call_legacy_analyze_data_types_for_table]_vars

----------------------------------------------------------------------------
(* Analysis passes side by side.  analyze_all_tables is a sequence of      *)
(* queries, not a transaction: a pass reads the tenants' columns and       *)
(* builds the layout (pass_analyze), and saves it with the MERGE later     *)
(* (pass_save); the catalog and the other passes move in between.          *)

\* the catalog only grows: the number of changes it has seen so far
CatalogAge(cat) == Cardinality({ t \in Tenants : cat[t].exists }) + TotalColumns(cat)

\* the loop body of analyze_all_tables for the table, up to the sample DDL
pass_analyze(p, failed) ==
    LET ta == analyze_table_fields_across_companies(catalog, get_companies_info, failed)
        layout == build_layout_definition_array(Get(ta))
    IN  /\ passes[p].pc = "idle"
        /\ HasTable # {}
        /\ passes' = [passes EXCEPT ![p] =
                IF ta = None
                THEN [pc |-> "skipped"]
                ELSE [pc |-> "built",
                      layout_array |-> layout,
                      view_ddl |-> generate_sample_view_ddl(Get(ta), layout),
                      observed |-> CatalogAge(catalog)]]
        /\ UNCHANGED <<catalog, metadata, table_analysis, layout_array, results_summary,
                       layout_definition, sql, views, tracking, last_op, runs,
                       type_list, consensus_type, cast_call, callVars>>

\* save_analysis_to_metadata of the pass: the MERGE and the counting of its outcome
pass_save(p, save_ok) ==
    /\ passes[p].pc = "built"
    /\ IF save_ok
       THEN /\ metadata' = save_analysis_to_metadata(metadata, passes[p].layout_array,
                                                     passes[p].view_ddl, clock)
            /\ passes' = [passes EXCEPT ![p] = [pc |-> "saved", observed |-> passes[p].observed]]
       ELSE /\ UNCHANGED metadata
            /\ passes' = [passes EXCEPT ![p] = [pc |-> "failed"]]
    /\ UNCHANGED <<catalog, table_analysis, layout_array, results_summary,
                   layout_definition, sql, views, tracking, last_op, runs,
                   type_list, consensus_type, cast_call, callVars>>

NextPasses ==
    \/ \E t \in Tenants : CreateTable(t)
    \/ \E t \in Tenants, c \in ColumnNames : \E ty \in ColumnTypes[c] : AddColumn(t, c, ty)
    \/ \E p \in Passes, failed \in SUBSET HasTable : pass_analyze(p, failed)
    \/ \E p \in Passes, save_ok \in BOOLEAN : pass_save(p, save_ok)

SpecPasses == Init /\ [][NextPasses]_vars

----------------------------------------------------------------------------
(* Properties of the analysis and of the layout it builds                  *)

\* what a tenant's catalog declares now: the analysed rows of its table
Declared(t) ==
    { r \in get_table_fields_with_types(catalog, t, {}) : ~StartsWithUnderscore(r.column_name) }

DeclaredNames(t) == { r.column_name : r \in Declared(t) }

\* the tenants the analysis of this state counted in total_companies
Counted ==
    { Get(table_analysis).company_results[i].company_id
        : i \in 1..Len(Get(table_analysis).company_results) }

\* the field names the counted tenants declare
Observed == UNION { DeclaredNames(t) : t \in Counted }

\* the data types the counted tenants declare for a field
DeclaredTypes(f) ==
    { r.data_type : r \in { q \in UNION { Declared(t) : t \in Counted } : q.column_name = f } }

LayoutOrders(layout) == { layout[i].field_order : i \in 1..Len(layout) }
LayoutNames(layout) == { layout[i].field_name : i \in 1..Len(layout) }

(* C1: every layout build_layout_definition_array returns numbers its      *)
(* fields 1..N without gap or duplicate, N being the number of distinct    *)
(* analysed fields.                                                        *)
C1_FieldOrderIsOneToN ==
    layout_array # None =>
        LET layout == Get(layout_array)
            N == Cardinality(Observed)
        IN  /\ Len(layout) = N
            /\ LayoutNames(layout) = Observed
            /\ LayoutOrders(layout) = 1..N
            /\ \A i, j \in 1..Len(layout) :
                    layout[i].field_order = layout[j].field_order => i = j

C1_Witness ==
    /\ last_op = "analyze"
    /\ layout_array # None
    /\ Len(Get(layout_array)) >= 2

(* C7: the analysis puts every observed field in exactly one of            *)
(* common_fields and partial_fields, in common_fields exactly when every   *)
(* counted tenant has it, and the layout marks is_partial exactly the      *)
(* fields some counted tenant lacks.                                       *)
C7_CommonPartialPartition ==
    table_analysis # None =>
        LET ta == Get(table_analysis)
            common == Range(ta.common_fields)
            partial == Range(ta.partial_fields)
            layout == Get(layout_array)
        IN  /\ ta.total_companies = Cardinality(Counted)
            /\ common \cup partial = Observed
            /\ common \cap partial = {}
            /\ \A f \in Observed :
                    f \in common <=> \A t \in Counted : f \in DeclaredNames(t)
            /\ \A i \in 1..Len(layout) :
                    layout[i].is_partial <=>
                        \E t \in Counted : layout[i].field_name \notin DeclaredNames(t)

C7_Witness ==
    /\ last_op = "analyze"
    /\ table_analysis # None
    /\ Get(table_analysis).total_companies = 2
    /\ Get(table_analysis).common_fields = << >>
    /\ Len(Get(table_analysis).partial_fields) = 2
    /\ \E i \in 1..Len(Get(layout_array)) : Get(layout_array)[i].is_partial

(* C8: a layout field whose counted tenants declare two or more different  *)
(* types has has_type_conflict true and target_type STRING; a field they   *)
(* all declare with one type has has_type_conflict false and that type.    *)
C8_ConflictFlagAndTarget ==
    layout_array # None =>
        LET layout == Get(layout_array)
        IN  \A i \in 1..Len(layout) :
                LET declared == DeclaredTypes(layout[i].field_name)
                IN  /\ Cardinality(declared) >= 2 =>
                        /\ layout[i].has_type_conflict
                        /\ layout[i].target_type = "STRING"
                    /\ Cardinality(declared) = 1 =>
                        /\ ~layout[i].has_type_conflict
                        /\ layout[i].target_type \in declared

C8_Witness ==
    /\ last_op = "analyze"
    /\ layout_array # None
    /\ \E i \in 1..Len(Get(layout_array)) :
            /\ Get(layout_array)[i].has_type_conflict
            /\ DeclaredTypes(Get(layout_array)[i].field_name) = {"INT64", "FLOAT64"}

(* C6: determine_consensus_type returns exactly one type for every         *)
(* non-empty list of declared types: the common type when all are          *)
(* identical, STRING as soon as two of them differ.                        *)
C6_ConsensusOfDeclaredTypes ==
    consensus_type # None =>
        LET result == Get(consensus_type)
            n == Len(type_list)
        IN  /\ result \in DataTypes
            /\ (\A i, j \in 1..n : type_list[i] = type_list[j]) => result = type_list[1]
            /\ (\E i, j \in 1..n : type_list[i] # type_list[j]) => result = "STRING"

C6_Witness ==
    /\ consensus_type = Some("STRING")
    /\ Len(type_list) = 3
    /\ type_list[1] # type_list[2]
    /\ "STRING" \notin Range(type_list)

LayoutInOrder(companies_df) ==
    LET ta == analyze_table_fields_across_companies(catalog, companies_df, Tenants \ Counted)
    IN  IF ta = None THEN None ELSE Some(build_layout_definition_array(Get(ta)))

(* C9: the layout does not depend on the order in which the tenants are    *)
(* supplied: an analysis of the same observations in any other order       *)
(* builds the layout this run built, field for field.                      *)
C9_LayoutIndependentOfTenantOrder ==
    (last_op = "analyze" /\ layout_array # None) =>
        \A companies_df \in Permutations(Tenants) : LayoutInOrder(companies_df) = layout_array

HasDuplicates(layout) ==
    \E i, j \in 1..Len(layout) :
        /\ i # j
        /\ \/ layout[i].field_order = layout[j].field_order
           \/ layout[i].alias_name = layout[j].alias_name

(* C10: no layout in which two fields share a field_order or an alias_name *)
(* is ever persisted: the run that builds one ends in an error and does    *)
(* not save.                                                               *)
C10_DuplicateLayoutNeverPersisted ==
    /\ metadata # None => ~HasDuplicates(Get(metadata).silver_layout_definition)
    /\ (layout_array # None /\ HasDuplicates(Get(layout_array))) =>
            /\ results_summary.success = 0
            /\ results_summary.errors = 1

----------------------------------------------------------------------------
(* Properties of the persisted layout and of the generated views           *)

Persisted(row) == row # None /\ Len(Get(row).silver_layout_definition) > 0

OrderOf(layout, field_name) ==
    (CHOOSE f \in Range(layout) : f.field_name = field_name).field_order

MaxOrder(layout) ==
    CHOOSE m \in LayoutOrders(layout) : \A o \in LayoutOrders(layout) : o <= m

C2_StableOrders ==
    LET L == Get(metadata).silver_layout_definition
        L2 == Get(metadata').silver_layout_definition
    IN  (/\ Persisted(metadata)
         /\ last_op' = "analyze"
         /\ results_summary'.success = 1
         /\ LayoutNames(L) \subseteq LayoutNames(L2))
        => /\ \A f \in LayoutNames(L) : OrderOf(L2, f) = OrderOf(L, f)
           /\ \A f \in LayoutNames(L2) \ LayoutNames(L) : OrderOf(L2, f) > MaxOrder(L)

(* C2: when a layout L is persisted and a later analysis run that sees     *)
(* every field of L saves its layout, each field of L keeps its            *)
(* field_order and each new field is numbered above the maximum of L.      *)
C2_PersistedOrderIsStable == [][C2_StableOrders]_vars

C3_KeepsPersisted ==
    (Persisted(metadata) /\ last_op' = "analyze") =>
        /\ Persisted(metadata')
        /\ Get(metadata').silver_layout_definition = Get(metadata).silver_layout_definition

(* C3: an analysis run leaves a persisted layout as it is (no run of the   *)
(* model requests a forced refresh: analyze_all_tables has no such         *)
(* argument); it derives and saves a layout only when none is persisted.   *)
C3_PersistedLayoutNotRederived == [][C3_KeepsPersisted]_vars

(* C4: for every layout field the tenant lacks, the tenant's select list   *)
(* has the typed null CAST(NULL AS target_type) at the field's place,      *)
(* whatever the target_type.                                               *)
C4_TypedNullForMissingField ==
    (last_op = "generate" /\ layout_definition # None) =>
        \A t \in Tenants :
            sql[t] # None =>
                \A i \in 1..Len(Get(layout_definition)) :
                    LET field_info == Get(layout_definition)[i]
                    IN  field_info.field_name \notin DeclaredNames(t) =>
                            Get(sql[t])[i].expression =
                                "CAST(NULL AS " \o field_info.target_type \o ")"

NthField(layout, i) ==
    CHOOSE f \in Range(layout) :
        Cardinality({ g \in Range(layout) : g.field_order < f.field_order }) = i - 1

(* C5: a tenant's select list has exactly one item per field of the        *)
(* persisted layout, the i-th item being that of the field with the i-th   *)
(* smallest field_order.                                                   *)
C5_OneItemPerFieldInOrder ==
    (last_op = "generate" /\ layout_definition # None) =>
        LET stored == Get(metadata).silver_layout_definition
        IN  \A t \in Tenants :
                sql[t] # None =>
                    /\ Len(Get(sql[t])) = Len(stored)
                    /\ \A i \in 1..Len(stored) :
                            LET f == NthField(stored, i)
                            IN  Get(sql[t])[i].as =
                                    IF f.field_name \in DeclaredNames(t)
                                    THEN f.alias_name
                                    ELSE f.field_name

C5_Witness ==
    /\ last_op = "generate"
    /\ layout_definition # None
    /\ \E t \in Tenants :
            /\ sql[t] # None
            /\ Len(Get(sql[t])) = 2
            /\ \E i, j \in 1..2 :
                    /\ Get(layout_definition)[i].field_name \in DeclaredNames(t)
                    /\ Get(layout_definition)[j].field_name \notin DeclaredNames(t)

----------------------------------------------------------------------------
(* Properties of the reads of the metadata table                           *)

(* C11: a read of the persisted layout that fails does not give what the   *)
(* read of a table without layout gives: neither 'no layout' from          *)
(* get_table_metadata_from_metadata_table nor an empty list from           *)
(* get_tables_from_metadata.                                               *)
C11_ReadFailureIsNotNotFound ==
    Persisted(metadata) =>
        /\ get_table_metadata_from_metadata_table(metadata, FALSE)
                # get_table_metadata_from_metadata_table(None, TRUE)
        /\ get_tables_from_metadata(metadata, FALSE)
                # get_tables_from_metadata(None, TRUE)

C12_Reconciles ==
    (/\ last_op' = "generate"
     /\ ~Persisted(metadata)
     /\ \E t \in Tenants : Declared(t) # {})
    => /\ Persisted(metadata')
       /\ layout_definition' = Some(Get(metadata').silver_layout_definition)

(* C12: a generation run that finds no persisted layout for the table runs *)
(* the reconciliation: after the run a layout is persisted and it is the   *)
(* layout the run generated the views from.                                *)
C12_NotFoundRunsReconciliation == [][C12_Reconciles]_vars

C13_SavesInOrderOfObservation ==
    \A p \in Passes :
        (passes[p].pc = "built" /\ passes'[p].pc = "saved") =>
            \A q \in Passes \ {p} :
                (passes[q].pc = "saved" /\ passes[q].observed > passes[p].observed)
                    => metadata' = metadata

(* C13: passes for the table are serialized: a pass never replaces the     *)
(* layout saved by a pass that read the tenants' columns later than it did *)
(* by its own, different layout (no lost update).                          *)
C13_NoLostUpdate == [][C13_SavesInOrderOfObservation]_vars

----------------------------------------------------------------------------
(* Properties of the alias, of the structural flag and of completeness     *)

\* the tenant's own observation of a field is structural
StructuralIn(t, field_name) ==
    \E r \in Declared(t) : r.column_name = field_name /\ r.is_repeated_record

(* C14: for a layout field the tenant has and observes as structural, the  *)
(* tenant's select list has TO_JSON_STRING(field) at the field's place,    *)
(* whatever the layout says.                                               *)
C14_StructuralFieldIsFlattened ==
    (last_op = "generate" /\ layout_definition # None) =>
        \A t \in Tenants :
            sql[t] # None =>
                \A i \in 1..Len(Get(layout_definition)) :
                    LET field_name == Get(layout_definition)[i].field_name
                    IN  StructuralIn(t, field_name) =>
                            Get(sql[t])[i].expression = "TO_JSON_STRING(" \o field_name \o ")"

\* field_name.replace('.', '_') over the names of the vocabulary
DotToUnderscore(field_name) ==
    IF field_name = "addr.city" THEN "addr_city" ELSE field_name

(* C16: in every built layout alias_name is field_name with the path       *)
(* separator '.' replaced by '_' (so field_name itself for a field that    *)
(* was not flattened), whichever tenants have the field.                   *)
C16_AliasFromFieldName ==
    layout_array # None =>
        \A i \in 1..Len(Get(layout_array)) :
            Get(layout_array)[i].alias_name = DotToUnderscore(Get(layout_array)[i].field_name)

(* C17: a layout field is flagged is_repeated as soon as one counted       *)
(* tenant observes it as structural.                                       *)
C17_StructuralFlagFromAnyTenant ==
    layout_array # None =>
        \A i \in 1..Len(Get(layout_array)) :
            (\E t \in Counted : StructuralIn(t, Get(layout_array)[i].field_name))
                => Get(layout_array)[i].is_repeated

(* C19: a pass that persists a layout persists one with every field of     *)
(* every tenant that has the table; otherwise it persists nothing and      *)
(* does not count a success.                                               *)
C19_PersistedLayoutIsComplete ==
    last_op = "analyze" =>
        IF results_summary.success = 1
        THEN /\ metadata # None
             /\ \A t \in Tenants :
                    DeclaredNames(t) \subseteq LayoutNames(Get(metadata).silver_layout_definition)
        ELSE metadata = None

----------------------------------------------------------------------------
(* Properties of the cast                                                  *)

\* the type of the column an expression over a field of type source_type yields
ExpressionType(expression, field_name, source_type) ==
    IF expression = field_name THEN source_type
    ELSE IF expression = "COALESCE(TO_JSON_STRING(" \o field_name \o "), '')" THEN "STRING"
    ELSE CHOOSE ty \in DataTypes :
            expression \in { "CAST(" \o field_name \o " AS " \o ty \o ")",
                             "SAFE_CAST(" \o field_name \o " AS " \o ty \o ")" }

IsStructural(source_type) ==
    IsArrayType(source_type) \/ IsStructType(source_type)
        \/ source_type \in {"STRUCT", "ARRAY", "RECORD"}

(* C15: for every declared type that is not structural and every           *)
(* target_type different from it, the expression generate_cast_for_field   *)
(* returns yields a column of type target_type.                            *)
C15_CastYieldsTargetType ==
    (cast_call # None /\ Get(cast_call).expression # None) =>
        LET c == Get(cast_call)
        IN  (c.source_type # c.target_type /\ ~IsStructural(c.source_type)) =>
                ExpressionType(Get(c.expression), c.field_name, c.source_type) = c.target_type

----------------------------------------------------------------------------
(* Properties of a table without data and of the stored order              *)

NoTenantHasData(failed) ==
    \A t \in Tenants : get_table_fields_with_types(catalog, t, failed) = {}

C18_NoDataIsSkipped ==
    (last_op' = "analyze" /\ table_analysis' = None) =>
            /\ \A failed \in SUBSET Tenants :
                    NoTenantHasData(failed) <=>
                        analyze_table_fields_across_companies(
                            catalog, get_companies_info, failed) = None
            /\ results_summary'.errors = 0
            /\ results_summary'.success = 0
            /\ results_summary'.skipped \in {0, 1}
            /\ layout_array' = None
            /\ metadata' = metadata

Ascending(layout) ==
    \A i, j \in 1..Len(layout) : i < j => layout[i].field_order < layout[j].field_order

Shuffled(layout, perm) == [ i \in 1..Len(layout) |-> layout[perm[i]] ]

(* C20: the persisted silver_layout_definition is in ascending             *)
(* field_order, and get_table_metadata_from_metadata_table returns its     *)
(* elements in ascending field_order in whatever order they are stored.    *)
C20_LayoutInAscendingOrder ==
    Persisted(metadata) =>
        LET stored == Get(metadata).silver_layout_definition
        IN  /\ Ascending(stored)
            /\ \A perm \in Permutations(1..Len(stored)) :
                    LET row == [Get(metadata) EXCEPT
                                    !.silver_layout_definition = Shuffled(stored, perm)]
                        read == get_table_metadata_from_metadata_table(Some(row), TRUE)
                    IN  /\ read # None
                        /\ Ascending(Get(read).layout_definition)
                        /\ Range(Get(read).layout_definition) = Range(stored)

C20_Witness ==
    /\ last_op = "analyze"
    /\ Persisted(metadata)
    /\ Len(Get(metadata).silver_layout_definition) = 2
    /\ results_summary.success = 1

----------------------------------------------------------------------------
(* Properties of the generated statements                                  *)

(* C21: two calls of generate_silver_view_sql_from_metadata with the same  *)
(* table, tenant observations and layout return the same text.             *)
C21_SameArgumentsSameStatement ==
    sql_call # None =>
        \A i, j \in 1..Len(Get(sql_call).returned) :
            Get(sql_call).returned[i] = Get(sql_call).returned[j]

\* the layout of the example: id, name, note
ExampleLayout ==
    << [ field_name |-> "id", target_type |-> "STRING", field_order |-> 1,
         has_type_conflict |-> TRUE, is_partial |-> FALSE,
         alias_name |-> "id", is_repeated |-> FALSE ],
       [ field_name |-> "name", target_type |-> "STRING", field_order |-> 2,
         has_type_conflict |-> FALSE, is_partial |-> FALSE,
         alias_name |-> "name", is_repeated |-> FALSE ],
       [ field_name |-> "note", target_type |-> "STRING", field_order |-> 3,
         has_type_conflict |-> FALSE, is_partial |-> TRUE,
         alias_name |-> "note", is_repeated |-> FALSE ] >>

(* C22: for tenant 1 = {id: INT64, name: STRING} and tenant 2 = {id:       *)
(* STRING, name: STRING, note: STRING} the layout built from both is id,   *)
(* name, note numbered 1, 2, 3, with id STRING and in conflict, name       *)
(* STRING without conflict and note partial; from that layout tenant 1     *)
(* gets CAST(NULL AS STRING) for note and tenant 2 the bare column id.     *)
C22_ExampleLayoutAndProjections ==
    /\ (last_op = "analyze" /\ table_analysis # None /\ Counted = {1, 2}) =>
            layout_array = Some(ExampleLayout)
    /\ (last_op = "generate" /\ layout_definition = Some(ExampleLayout)) =>
            /\ sql[1] # None =>
                    Get(sql[1])[3] = [ expression |-> "CAST(NULL AS STRING)", as |-> "note" ]
            /\ sql[2] # None =>
                    Get(sql[2])[1] = [ expression |-> "id", as |-> "id" ]

C22_Witness ==
    /\ last_op = "generate"
    /\ Persisted(metadata)
    /\ Get(metadata).silver_layout_definition = ExampleLayout
    /\ layout_definition = Some(ExampleLayout)
    /\ sql[1] # None
    /\ sql[2] # None
    /\ views = sql

(* C23: for the layout a generation run read, the select lists of all      *)
(* tenants have one column per layout field and, at every position, the    *)
(* output name alias_name of the layout field, whether or not the tenant   *)
(* has the field.                                                          *)
C23_SameColumnNamesForAllTenants ==
    (last_op = "generate" /\ layout_definition # None) =>
        \A t \in Tenants :
            sql[t] # None =>
                /\ Len(Get(sql[t])) = Len(Get(layout_definition))
                /\ \A i \in 1..Len(Get(layout_definition)) :
                        Get(sql[t])[i].as = Get(layout_definition)[i].alias_name

----------------------------------------------------------------------------
(* Properties of the tracking of a (company, table) pair                   *)

\* the calls of update_status that returned True
Recorded == SelectSeq(status_calls, LAMBDA c : c.returned)

(* C24: the view of a pair is attempted at most 3 times and not again      *)
(* after a success; once the loop is over exactly one status has been      *)
(* recorded for the pair: 1 if an attempt succeeded, 2 with the message of *)
(* the last error if all 3 failed, and the row of the pair holds it.       *)
C24_OneStatusPerPair ==
    /\ retry.attempt <= max_retries
    /\ retry.created => retry.pc = "done"
    /\ retry.pc = "done" =>
            /\ Len(Recorded) = 1
            /\ Len(companies_consolidated) = 1
            /\ IF retry.created
               THEN /\ Recorded[1].status = 1
                    /\ companies_consolidated[1].consolidated_status = 1
               ELSE /\ Len(retry.errors) = max_retries
                    /\ Recorded[1].status = 2
                    /\ Recorded[1].error_message = Some(retry.errors[max_retries])
                    /\ companies_consolidated[1].consolidated_status = 2
                    /\ companies_consolidated[1].error_message
                            = Some(retry.errors[max_retries])

C25_ZeroOnlyForMissingTable ==
    \A t \in Tenants :
        (last_op' = "generate" /\ tracking'[t] = Some(0)) =>
            \/ ~catalog[t].exists
            \/ tracking[t] = Some(0)

(* C25: a generation run records status 0 for a tenant only when the table *)
(* does not exist in the tenant's source dataset; a tenant whose table     *)
(* exists and whose status is 1 is never set to 0.                         *)
C25_StatusZeroMeansNoTable == [][C25_ZeroOnlyForMissingTable]_vars

(* C26: after any sequence of update_status calls one after the other the  *)
(* pair has at most one row; the row has the status, error message and     *)
(* notes of the last call that returned True and the created_at of the     *)
(* first one.                                                              *)
C26_OneRowOfLastCall ==
    /\ Len(companies_consolidated) <= 1
    /\ Recorded = << >> => companies_consolidated = << >>
    /\ Recorded # << >> =>
            /\ Len(companies_consolidated) = 1
            /\ LET row == companies_consolidated[1]
                   last == Recorded[Len(Recorded)]
               IN  /\ row.consolidated_status = last.status
                   /\ row.error_message = last.error_message
                   /\ row.notes = last.notes
                   /\ row.created_at = Recorded[1].at

C26_Witness ==
    /\ Len(status_calls) = 3
    /\ status_calls[1].returned
    /\ ~status_calls[2].returned
    /\ status_calls[3].returned
    /\ status_calls[3].at > status_calls[1].at
    /\ status_calls[3].status # status_calls[1].status
    /\ companies_consolidated[1].created_at < companies_consolidated[1].updated_at

(* C27: when the jobs that call update_status at the same time for a pair  *)
(* without a row have all returned, and one of the calls went through, the *)
(* pair has exactly one row.                                               *)
C27_OneRowAfterConcurrentCalls ==
    (/\ \A p \in Callers : callers[p].pc = "done"
     /\ \E p \in Callers : callers[p].returned)
    => Len(companies_consolidated) = 1

----------------------------------------------------------------------------
(* Properties of the writers of the metadata row                           *)

C28_WritersKeepEachOthersColumns ==
    (metadata # None /\ metadata' # None) =>
        /\ (last_op' = "analyze" /\ runs' = runs + 1) =>
                /\ Get(metadata').partition_fields = Get(metadata).partition_fields
                /\ Get(metadata').cluster_fields = Get(metadata).cluster_fields
                /\ Get(metadata').update_strategy = Get(metadata).update_strategy
        /\ last_op' = "metadata" =>
                /\ Get(metadata').silver_layout_definition = Get(metadata).silver_layout_definition
                /\ Get(metadata').silver_view_ddl = Get(metadata).silver_view_ddl
                /\ Get(metadata').silver_analysis_timestamp = Get(metadata).silver_analysis_timestamp
                /\ Get(metadata').silver_status = Get(metadata).silver_status
                /\ Get(metadata').silver_use_bronze = Get(metadata).silver_use_bronze

(* C28: on an existing row save_analysis_to_metadata leaves                *)
(* partition_fields, cluster_fields and update_strategy as they are, and   *)
(* update_table_metadata leaves the silver_* columns as they are.          *)
C28_DisjointColumnsOfTheWriters == [][C28_WritersKeepEachOthersColumns]_vars

C28_Witness ==
    /\ last_op = "analyze"
    /\ results_summary.success = 1
    /\ Persisted(metadata)
    /\ Get(metadata).update_strategy = "full"
    /\ Get(metadata).cluster_fields = << "company_id", "id", "name", "note" >>
    /\ Get(metadata).silver_analysis_timestamp = Some(2)
    /\ Get(metadata).updated_at = 2

----------------------------------------------------------------------------
(* Properties of the views that are consolidated                           *)

\* get_companies_for_table: the tenants whose status for the table is 1
get_companies_for_table == { t \in Tenants : tracking[t] = Some(1) }

\* the layout fields a view was generated from, by position
FieldsOfView(view) == [ i \in 1..Len(view) |-> DotToUnderscore(view[i].as) ]

(* C29: the views of all tenants whose status for the table is 1, which    *)
(* create_consolidated_table unions by position, were generated from the   *)
(* same layout: they exist and have the same fields at the same places.    *)
C29_ConsolidatedViewsFromOneLayout ==
    \A t, u \in get_companies_for_table :
        /\ views[t] # None
        /\ views[u] # None
        /\ FieldsOfView(Get(views[t])) = FieldsOfView(Get(views[u]))

----------------------------------------------------------------------------
(* Properties of the generator without persisted layout                    *)

\* the declared types of every field the tenants' tables have, control columns apart
LegacyObserved ==
    field_type_analysis(legacy_table_analysis_results(catalog, get_companies_info))

(* C30: the analyze_data_types_for_table of src/generate_silver_views.py   *)
(* puts every observed field in exactly one of field_consensus and         *)
(* type_conflicts: in type_conflicts when more than one declared type was  *)
(* observed for it, in field_consensus otherwise; the fields the views are *)
(* generated from are all the observed fields.                             *)
C30_EveryFieldInOneDictionary ==
    legacy_analysis # None =>
        LET analysis == Get(legacy_analysis)
        IN  /\ \A f \in DOMAIN LegacyObserved :
                    /\ f \in DOMAIN analysis.type_conflicts
                            <=> Cardinality(LegacyObserved[f]) > 1
                    /\ f \in DOMAIN analysis.field_consensus
                            <=> Cardinality(LegacyObserved[f]) = 1
            /\ all_analyzed_fields(analysis) = DOMAIN LegacyObserved

====
